---------------------------- MODULE Spec2Model ----------------------------
(***************************************************************************)
(* A model of sldownloader (src/main.go).  Go strings are modelled as      *)
(* sequences of characters, each character a one-element TLA+ string;      *)
(* multi-byte characters carry a name ("tm", "copy", "nnbsp", "rsquo",     *)
(* "ldquo", "rdquo", "dquote").  The model has one specification per part  *)
(* of the program:                                                         *)
(*   SpecLines    scrapeProduct, the listing-line loop and cleanLine       *)
(*   SpecNumbers  scrapeProduct, fuzzy match, image pass and backfill      *)
(*   SpecStrip    cleanLine's denylist loop                                *)
(*   SpecOCR      getNumberFromLink / extractNumber                        *)
(*   SpecRun      run                                                      *)
(***************************************************************************)
EXTENDS Integers, Sequences, FiniteSets, TLC

VARIABLES
  \* scrapeProduct, the loops over the listing lines
  title,        \* raw text of h1.product-title
  liLeft,       \* bullet points (li) of the page not yet visited
  infoLeft,     \* pieces of the product-information text not yet visited
  pcL,          \* position in the line loops
  lastLine,     \* the line the last turn handled
  lastRes,      \* what cleanLine returned for it
  added,        \* the cards that turn appended
  cards,        \* []CardData, built by the line loops, numbered by the passes
  \* scrapeProduct, the number passes
  setTitle,     \* cardSet.Title
  headers,      \* []scryfallHeader
  hIdx,         \* the header the loop is at
  foundMatch,
  queries,      \* the calls of search made, in order, with what they returned
  pcN,          \* position in the number passes
  fuzzyNums,    \* the numbers as the fuzzy match left them
  doOCR,
  galleryTitle, \* text of h2.pdp_title
  foldMode,
  imgIdx,       \* index of the next image of the gallery, from 0
  lastImage,    \* the last image handled and the card it stood for
  before,       \* the numbers as they were when the backfill started
  \* the denylist loop
  sText,        \* the text
  sPrev,        \* the text before the last run of the loop
  sRuns,        \* how many times the loop has run on it
  \* getNumberFromLink
  ocrTokens,    \* the tokens of the recognised text
  ocrRes,       \* the number and the error returned
  \* run
  runPc,
  args,         \* flag.Args()
  pageOpt,      \* -page
  pageI,        \* i, the page to ask for
  pending,      \* products of the current page not yet handled
  fetched,      \* products received from getProducts so far
  runLog,       \* the products handled, each with how it ended
  exitCode,     \* what run returned, -1 while it runs
  returnLine    \* the line of main.go of the return statement taken

linesVars == <<title, liLeft, infoLeft, pcL, lastLine, lastRes, added>>

passVars ==
  <<setTitle, headers, hIdx, foundMatch, queries, pcN, fuzzyNums, doOCR,
    galleryTitle, foldMode, imgIdx, lastImage, before>>

stripVars == <<sText, sPrev, sRuns>>

ocrVars == <<ocrTokens, ocrRes>>

runVars ==
  <<runPc, args, pageOpt, pageI, pending, fetched, runLog, exitCode, returnLine>>

vars == <<linesVars, cards, passVars, stripVars, ocrVars, runVars>>

\* what the steps of one part of the program leave alone
otherThanLines == <<passVars, stripVars, ocrVars, runVars>>

otherThanPasses == <<linesVars, stripVars, ocrVars, runVars>>

otherThanStrip == <<linesVars, cards, passVars, ocrVars, runVars>>

otherThanOCR == <<linesVars, cards, passVars, stripVars, runVars>>

otherThanRun == <<linesVars, cards, passVars, stripVars, ocrVars>>

---------------------------------------------------------------------------
(* package strings / strconv / fmt, on character sequences                 *)

IsPrefixAt(s, i, t) ==
  /\ i + Len(t) - 1 <= Len(s)
  /\ \A k \in 1..Len(t) : s[i + k - 1] = t[k]

Contains(s, t) == \E i \in 1..(Len(s) - Len(t) + 1) : IsPrefixAt(s, i, t)

HasPrefix(s, t) == IsPrefixAt(s, 1, t)

HasSuffix(s, t) == Len(t) <= Len(s) /\ IsPrefixAt(s, Len(s) - Len(t) + 1, t)

RECURSIVE ReplaceFrom(_, _, _, _)
ReplaceFrom(s, i, old, new) ==
  IF i > Len(s) THEN <<>>
  ELSE IF IsPrefixAt(s, i, old)
       THEN new \o ReplaceFrom(s, i + Len(old), old, new)
       ELSE <<s[i]>> \o ReplaceFrom(s, i + 1, old, new)

\* strings.Replace(s, old, new, -1) and strings.ReplaceAll, old non-empty
ReplaceAll(s, old, new) ==
  IF Contains(s, old) THEN ReplaceFrom(s, 1, old, new) ELSE s

RECURSIVE SplitFrom(_, _, _, _)
SplitFrom(s, i, sep, cur) ==
  IF i > Len(s) THEN <<cur>>
  ELSE IF IsPrefixAt(s, i, sep)
       THEN <<cur>> \o SplitFrom(s, i + Len(sep), sep, <<>>)
       ELSE SplitFrom(s, i + 1, sep, Append(cur, s[i]))

\* strings.Split(s, sep), sep non-empty
Split(s, sep) == SplitFrom(s, 1, sep, <<>>)

\* unicode.IsSpace, restricted to the characters of the model
IsSpace(c) == c \in {" ", "\t", "\n", "nnbsp"}

RECURSIVE TrimLeftSpace(_)
TrimLeftSpace(s) ==
  IF s # <<>> /\ IsSpace(Head(s)) THEN TrimLeftSpace(Tail(s)) ELSE s

RECURSIVE TrimRightSpace(_)
TrimRightSpace(s) ==
  IF s # <<>> /\ IsSpace(s[Len(s)])
  THEN TrimRightSpace(SubSeq(s, 1, Len(s) - 1)) ELSE s

TrimSpace(s) == TrimRightSpace(TrimLeftSpace(s))

RECURSIVE TrimLeft(_, _)
TrimLeft(s, c) == IF s # <<>> /\ Head(s) = c THEN TrimLeft(Tail(s), c) ELSE s

RECURSIVE TrimRight(_, _)
TrimRight(s, c) ==
  IF s # <<>> /\ s[Len(s)] = c THEN TrimRight(SubSeq(s, 1, Len(s) - 1), c) ELSE s

RECURSIVE FieldsFrom(_, _, _)
FieldsFrom(s, i, cur) ==
  IF i > Len(s) THEN (IF cur = <<>> THEN <<>> ELSE <<cur>>)
  ELSE IF IsSpace(s[i])
       THEN (IF cur = <<>> THEN <<>> ELSE <<cur>>) \o FieldsFrom(s, i + 1, <<>>)
       ELSE FieldsFrom(s, i + 1, Append(cur, s[i]))

\* strings.Fields
Fields(s) == FieldsFrom(s, 1, <<>>)

upperCase ==
  <<"A","B","C","D","E","F","G","H","I","J","K","L","M","N","O","P","Q","R","S","T","U","V","W","X","Y","Z">>

lowerCase ==
  <<"a","b","c","d","e","f","g","h","i","j","k","l","m","n","o","p","q","r","s","t","u","v","w","x","y","z">>

\* unicode.ToLower on the letters A..Z
lowerOf ==
  [c \in { upperCase[k] : k \in 1..Len(upperCase) } |->
     lowerCase[CHOOSE k \in 1..Len(upperCase) : upperCase[k] = c]]

LowerChar(c) == IF c \in DOMAIN lowerOf THEN lowerOf[c] ELSE c

ToLower(s) == [i \in 1..Len(s) |-> LowerChar(s[i])]

\* len(s): the number of bytes of the UTF-8 encoding
CharBytes(c) ==
  CASE c \in {"tm", "nnbsp", "rsquo", "ldquo", "rdquo"} -> 3
    [] c = "copy" -> 2
    [] OTHER -> 1

RECURSIVE ByteLen(_)
ByteLen(s) == IF s = <<>> THEN 0 ELSE CharBytes(Head(s)) + ByteLen(Tail(s))

decimalDigits == <<"0","1","2","3","4","5","6","7","8","9">>

IsDigit(c) == \E k \in 1..10 : decimalDigits[k] = c

DigitVal(c) == (CHOOSE k \in 1..10 : decimalDigits[k] = c) - 1

\* the largest int (64 bits) and the magnitude of the smallest one
maxInt64 == <<"9","2","2","3","3","7","2","0","3","6","8","5","4","7","7","5","8","0","7">>

minInt64Abs == <<"9","2","2","3","3","7","2","0","3","6","8","5","4","7","7","5","8","0","8">>

RECURSIVE DigitsGreater(_, _)
\* a > b for digit strings of equal length
DigitsGreater(a, b) ==
  IF a = <<>> THEN FALSE
  ELSE IF DigitVal(Head(a)) # DigitVal(Head(b))
       THEN DigitVal(Head(a)) > DigitVal(Head(b))
       ELSE DigitsGreater(Tail(a), Tail(b))

AtoiSign(s) == s # <<>> /\ Head(s) \in {"+", "-"}

AtoiBody(s) == IF AtoiSign(s) THEN Tail(s) ELSE s

AtoiOutOfRange(s) ==
  LET mag   == TrimLeft(AtoiBody(s), "0")
      limit == IF s # <<>> /\ Head(s) = "-" THEN minInt64Abs ELSE maxInt64
  IN  \/ Len(mag) > Len(limit)
      \/ Len(mag) = Len(limit) /\ DigitsGreater(mag, limit)

AtoiSyntaxErr(s) ==
  \/ AtoiBody(s) = <<>>
  \/ \E i \in 1..Len(AtoiBody(s)) : ~IsDigit(AtoiBody(s)[i])

\* strconv.Atoi(s) returns an error
AtoiErr(s) == AtoiSyntaxErr(s) \/ AtoiOutOfRange(s)

RECURSIVE DigitsValue(_, _)
DigitsValue(s, acc) ==
  IF s = <<>> THEN acc ELSE DigitsValue(Tail(s), acc * 10 + DigitVal(Head(s)))

\* the int strconv.Atoi(s) returns: 0 with a syntax error, the nearest int with
\* a range error
AtoiVal(s) ==
  IF AtoiSyntaxErr(s) THEN 0
  ELSE LET mag == IF AtoiOutOfRange(s)
                  THEN (IF Head(s) = "-" THEN minInt64Abs ELSE maxInt64)
                  ELSE AtoiBody(s)
       IN  IF Head(s) = "-" THEN 0 - DigitsValue(mag, 0) ELSE DigitsValue(mag, 0)

RECURSIVE NatDigits(_)
NatDigits(n) ==
  IF n < 10 THEN <<decimalDigits[n + 1]>>
  ELSE Append(NatDigits(n \div 10), decimalDigits[(n % 10) + 1])

\* fmt.Sprint(n) for an int
Sprint(n) == IF n < 0 THEN <<"-">> \o NatDigits(0 - n) ELSE NatDigits(n)

---------------------------------------------------------------------------
(* cleanLine                                                               *)

denylist ==
  << <<"F","u","l","l","-","T","e","x","t">>,
     <<"F","u","l","l","-","A","r","t">>,
     <<"F","u","l","l","-","a","r","t">>,
     <<"A","l","t","-","A","r","t">>,
     <<"R","e","v","e","r","s","i","b","l","e">>,
     <<"O","l","d"," ","F","r","a","m","e">>,
     <<"R","e","t","r","o"," ","F","r","a","m","e">>,
     <<"P","o","s","t","e","r">>,
     <<"S","t","a","i","n","e","d"," ","G","l","a","s","s">>,
     <<"F","o","i","l","-","e","t","c","h","e","d">>,
     <<"E","t","c","h","e","d">>,
     <<"F","o","i","l">>,
     <<"T","o","k","e","n","s">>,
     <<"T","o","k","e","n">>,
     <<"D","i","f","f","e","r","e","n","t">>,
     <<"H","a","n","d","-","D","r","a","w","n">>,
     <<"B","o","r","d","e","r","l","e","s","s">>,
     <<"S","h","o","w","c","a","s","e">>,
     <<"L","e","f","t","-","H","a","n","d","e","d">>,
     <<"E","d","i","t","i","o","n">>,
     <<"c","a","r","d","s">>,
     <<"J","a","p","a","n","e","s","e">>,
     <<"R","e","g","u","l","a","r"," ","H","u","m","a","n"," ","G","u","y">>,
     <<"I","c","h","o","r","-","E">>,
     <<"D","F","C">>,
     <<"I","t","a","l","i","a","n","-","l","a","n","g","u","a","g","e">>,
     <<"*">> >>

RECURSIVE StripTagsLowerText(_, _, _)
\* StripTags with the text, too, put in lowercase before the lowercase form
\* of the tag is removed
StripTagsLowerText(s, tags, k) ==
  IF k > Len(tags) \/ Len(s) = 0 THEN s
  ELSE StripTagsLowerText(
         ReplaceAll(ToLower(ReplaceAll(s, tags[k], <<>>)), ToLower(tags[k]), <<>>),
         tags, k + 1)

RECURSIVE StripTags(_, _, _)
\* the loop over the tags: each tag, then its lowercase form, is removed
\* (the removals leave an empty text empty)
StripTags(s, tags, k) ==
  IF k > Len(tags) \/ Len(s) = 0 THEN s
  ELSE StripTags(ReplaceAll(ReplaceAll(s, tags[k], <<>>), ToLower(tags[k]), <<>>),
                 tags, k + 1)

StripDenylist(s) == StripTags(s, denylist, 1)

NormalizeUnicode(s) ==
  TrimSpace(ReplaceAll(ReplaceAll(ReplaceAll(ReplaceAll(s,
    <<"nnbsp">>, <<" ">>), <<"rsquo">>, <<"'">>), <<"rdquo">>, <<"dquote">>),
    <<"ldquo">>, <<"dquote">>))

CutParenthesis(s) == IF Contains(s, <<"(">>) THEN Split(s, <<"(">>)[1] ELSE s

CutFoilPrefix(s) ==
  IF /\ Contains(s, <<"F","o","i","l">>)
     /\ ~HasSuffix(s, <<"F","o","i","l"," ","E","d","i","t","i","o","n">>)
     /\ ~HasSuffix(s, <<"F","o","i","l"," ","E","t","c","h","e","d">>)
  THEN Split(s, <<"F","o","i","l">>)[2]
  ELSE s

CutPhyrexian(s) ==
  IF /\ ~Contains(s, <<"T","o","w","e","r">>)
     /\ ~Contains(s, <<"C","r","u","s","a","d","e","r">>)
     /\ ~Contains(s, <<"U","n","l","i","f","e">>)
  THEN ReplaceAll(s, <<"P","h","y","r","e","x","i","a","n">>, <<>>)
  ELSE s

CutAfter(s, mark) == IF Contains(s, mark) THEN Split(s, mark)[1] ELSE s

FrontFace(s) ==
  LET std == IF Contains(s, <<"/","/">>) /\ ~Contains(s, <<" ","/","/"," ">>)
             THEN ReplaceAll(s, <<"/","/">>, <<" ","/","/"," ">>)
             ELSE s
  IN  Split(std, <<" ","/","/"," ">>)[1]

FixNames(s) ==
  ReplaceAll(ReplaceAll(s,
    <<"S","t","i","c","k","e","r"," ","S","h","e","e","t","s">>,
    <<"S","t","i","c","k","e","r"," ","s","h","e","e","t">>),
    <<"X","e","n","e","g","o","s">>, <<"X","e","n","a","g","o","s">>)

\* the name cleanLine derives from the text after the count
CleanName(s) ==
  TrimSpace(FixNames(FrontFace(
    CutAfter(CutAfter(CutAfter(
      StripDenylist(CutPhyrexian(CutFoilPrefix(CutParenthesis(TrimSpace(s))))),
      <<" ","a","s"," ">>), <<" ","b","y"," ">>),
      <<" ","w","i","t","h"," ","a","r","t">>))))

\* cleanLine without the test of strconv.Atoi's error
cleanLineIgnoringAtoiError(cardLine) ==
  LET fields == Split(NormalizeUnicode(cardLine), <<"x"," ">>)
  IN  IF Len(fields) # 2
      THEN [name |-> <<>>, num |-> 0, err |-> "unexpected line format"]
      ELSE [name |-> CleanName(fields[2]), num |-> AtoiVal(fields[1]), err |-> ""]

\* cleanLine(cardLine): the name, the count and the error ("" for nil)
cleanLine(cardLine) ==
  LET fields == Split(NormalizeUnicode(cardLine), <<"x"," ">>)
  IN  IF Len(fields) # 2
      THEN [name |-> <<>>, num |-> 0, err |-> "unexpected line format"]
      ELSE IF AtoiErr(fields[1])
      THEN [name |-> <<>>, num |-> 0, err |-> "invalid number in line"]
      ELSE [name |-> CleanName(fields[2]), num |-> AtoiVal(fields[1]), err |-> ""]

---------------------------------------------------------------------------
(* scrapeProduct: the loops over the listing lines                          *)

astrologyLands == <<"A","s","t","r","o","l","o","g","y"," ","L","a","n","d","s">>

\* the CardData a line describes: the flags come from the raw line
NewCard(line, name) ==
  [Name   |-> name,
   Number |-> <<>>,
   Foil   |-> Contains(ToLower(line), <<"f","o","i","l">>),
   Etched |-> Contains(ToLower(line), <<"e","t","c","h","e","d">>),
   Token  |-> Contains(ToLower(line), <<"t","o","k","e","n">>)]

RECURSIVE AppendLoopOffByOne(_, _, _, _, _)
\* AppendLoop with i <= num for i < num
AppendLoopOffByOne(out, card, i, num, pageTitle) ==
  IF ~(i <= num) THEN out
  ELSE IF Contains(pageTitle, astrologyLands) THEN Append(out, card)
       ELSE AppendLoopOffByOne(Append(out, card), card, i + 1, num, pageTitle)

RECURSIVE AppendLoop(_, _, _, _, _)
\* for i := 0; i < num; i++ { append; if the title has "Astrology Lands" { break } }
AppendLoop(out, card, i, num, pageTitle) ==
  IF ~(i < num) THEN out
  ELSE IF Contains(pageTitle, astrologyLands) THEN Append(out, card)
       ELSE AppendLoop(Append(out, card), card, i + 1, num, pageTitle)

\* the cards one line adds, res being what cleanLine returned for it: none
\* when cleanLine failed
LineCards(line, res, pageTitle) ==
  IF res.err # "" THEN <<>>
  ELSE AppendLoop(<<>>, NewCard(line, res.name), 0, res.num, pageTitle)

MaxCount == 2

MaxLines == 2

MaxInfoLines == 1

\* the texts a line can carry after its count
NameTexts ==
  { <<"B","o","l","t">>,
    <<"B","o","l","t"," ","(","F","o","i","l",")">>,
    <<"L","y","n","x"," ","T","o","k","e","n">>,
    <<"G","a","l","a","x","y"," ","F","o","i","l"," ","B","o","l","t","/","/","S","h","o","c","k">> }

CountTexts == { Sprint(n) : n \in -1..MaxCount } \cup { <<"t","w","o">> }

Separators == { <<"x"," ">>, <<" ","x"," ">> }

PageLines ==
  { c \o s \o n : c \in CountTexts, s \in Separators, n \in NameTexts }
    \cup { <<"B","o","l","t">>, <<>> }

PageTitles ==
  { <<"A","s","t","r","o","l","o","g","y"," ","L","a","n","d","s"," ","L","e","o">>,
    <<"S","h","o","w","c","a","s","e"," ","L","a","i","r">> }

noResult == [name |-> <<>>, num |-> 0, err |-> "no line handled"]

InitLines ==
  /\ title \in PageTitles
  /\ liLeft \in 0..MaxLines
  /\ infoLeft \in 1..MaxInfoLines
  /\ pcL = "li"
  /\ cards = <<>>
  /\ lastLine = <<>>
  /\ lastRes = noResult
  /\ added = <<>>

\* the callback of doc.Find("... ul li").Each, on one bullet point
ParseLi ==
  /\ pcL = "li"
  /\ liLeft > 0
  /\ \E line \in PageLines :
       LET res   == cleanLine(line)
           items == LineCards(line, res, title)
       IN  /\ lastLine' = line
           /\ lastRes' = res
           /\ added' = items
           /\ cards' = cards \o items
  /\ liLeft' = liLeft - 1
  /\ UNCHANGED <<title, infoLeft, pcL>>
  /\ UNCHANGED otherThanLines

\* if len(cards) == 0 after the bullet points, the fallback is tried
EndLi ==
  /\ pcL = "li"
  /\ liLeft = 0
  /\ pcL' = IF Len(cards) = 0 THEN "info" ELSE "parsed"
  /\ UNCHANGED <<title, liLeft, infoLeft, cards, lastLine, lastRes, added>>
  /\ UNCHANGED otherThanLines

\* one turn of the loop over strings.Split(productInfo, "<br/>")
ParseInfo ==
  /\ pcL = "info"
  /\ infoLeft > 0
  /\ \E line \in PageLines :
       LET res   == cleanLine(line)
           items == LineCards(line, res, title)
       IN  /\ lastLine' = line
           /\ lastRes' = res
           /\ added' = items
           /\ cards' = cards \o items
  /\ infoLeft' = infoLeft - 1
  /\ UNCHANGED <<title, liLeft, pcL>>
  /\ UNCHANGED otherThanLines

\* after the fallback: errors.New("no cards found") when there is still no card
EndInfo ==
  /\ pcL = "info"
  /\ infoLeft = 0
  /\ pcL' = IF Len(cards) = 0 THEN "no cards found" ELSE "parsed"
  /\ UNCHANGED <<title, liLeft, infoLeft, cards, lastLine, lastRes, added>>
  /\ UNCHANGED otherThanLines

NextLines == ParseLi \/ EndLi \/ ParseInfo \/ EndInfo

---------------------------------------------------------------------------
(* getNumberFromLink and extractNumber                                     *)

RECURSIVE extractNumber(_, _)
\* the first field longer than minLen that strconv.Atoi accepts, unless a
\* terminator comes first
extractNumber(fields, minLen) ==
  IF fields = <<>> THEN <<>>
  ELSE IF Head(fields) \in { <<"tm">>, <<"copy">> } THEN <<>>
  ELSE IF ByteLen(Head(fields)) > minLen /\ ~AtoiErr(Head(fields))
       THEN Head(fields)
       ELSE extractNumber(Tail(fields), minLen)

\* NumberFromFields with the shorter minimum length tried first
NumberFromFieldsShortFirst(fields) ==
  IF extractNumber(fields, 2) = <<>> THEN extractNumber(fields, 3)
  ELSE extractNumber(fields, 2)

\* what getNumberFromLink makes of the recognised text
NumberFromFields(fields) ==
  IF extractNumber(fields, 3) = <<>> THEN extractNumber(fields, 2)
  ELSE extractNumber(fields, 3)

\* getNumberFromLink(link): img tells whether the download and the
\* recognition succeed, and the text recognised
getNumberFromLink(img) ==
  IF ~img.fetched THEN [num |-> <<>>, err |-> "fetch"]
  ELSE IF ~img.recognised THEN [num |-> <<>>, err |-> "text"]
  ELSE [num |-> NumberFromFields(Fields(img.text)), err |-> ""]

---------------------------------------------------------------------------
(* scrapeProduct: fuzzy match, image pass, backfill                         *)

RECURSIVE FuzzyMatch(_, _)
\* fuzzy.Match(source, target): the characters of source occur in target, in
\* order
FuzzyMatch(source, target) ==
  IF Len(target) < Len(source) THEN FALSE
  ELSE IF source = <<>> THEN TRUE
  ELSE IF \E i \in 1..Len(target) : target[i] = Head(source)
       THEN LET i == CHOOSE k \in 1..Len(target) :
                       /\ target[k] = Head(source)
                       /\ \A m \in 1..(k - 1) : target[m] # Head(source)
            IN  FuzzyMatch(Tail(source), SubSeq(target, i + 1, Len(target)))
       ELSE FALSE

\* cardSet.Title without the suffixes that are not part of the drop's name
MatchTitle(t) ==
  ReplaceAll(ReplaceAll(ReplaceAll(t,
    <<" ","F","o","i","l"," ","E","d","i","t","i","o","n">>, <<>>),
    <<" ","R","a","i","s","e","d">>, <<>>),
    <<" ","G","a","l","a","x","y">>, <<>>)

\* the test of the loop over the headers
HeaderMatches(t, header) ==
  LET a == ToLower(MatchTitle(t))
      b == ToLower(header.Title)
  IN  FuzzyMatch(a, b) \/ Contains(a, b) \/ Contains(b, a)

\* results[name]: the empty string for a name the map does not hold
Lookup(results, name) == IF name \in DOMAIN results THEN results[name] ELSE <<>>

\* for i, card := range cards { cards[i].Number = results[card.Name] }
ApplyResults(cs, results) ==
  [i \in 1..Len(cs) |-> [cs[i] EXCEPT !.Number = Lookup(results, cs[i].Name)]]

\* Go's integer division truncates towards zero
GoDiv(a, b) == IF a >= 0 THEN a \div b ELSE 0 - ((0 - a) \div b)

\* foldMode, from the text of h2.pdp_title and len(cards)
FoldMode(gallery, n) ==
  IF Contains(gallery, <<" ","(">>)
  THEN LET fields   == Fields(gallery)
           expected == TrimRight(TrimLeft(fields[Len(fields)], "("), ")")
       IN  GoDiv(AtoiVal(expected), 2) = n
  ELSE FALSE

\* the card an image stands for (both counted from 0)
ImageCard(fold, i) == IF fold THEN GoDiv(i, 2) ELSE i

RECURSIVE FoundNum(_)
FoundNum(cs) ==
  IF cs = <<>> THEN 0
  ELSE (IF Head(cs).Number # <<>> THEN 1 ELSE 0) + FoundNum(Tail(cs))

RECURSIVE FindLongestLast(_, _, _, _)
\* FindLongest with >= for >: the last of the longest is kept
FindLongestLast(cs, i, num, pos) ==
  IF i > Len(cs) THEN [num |-> num, pos |-> pos]
  ELSE IF cs[i].Number # <<>> /\ ByteLen(cs[i].Number) >= ByteLen(num)
       THEN FindLongestLast(cs, i + 1, cs[i].Number, i)
       ELSE FindLongestLast(cs, i + 1, num, pos)

RECURSIVE FindLongest(_, _, _, _)
\* the longest number among those found and its position: the loop keeps
\* the first of the longest
FindLongest(cs, i, num, pos) ==
  IF i > Len(cs) THEN [num |-> num, pos |-> pos]
  ELSE IF cs[i].Number # <<>> /\ ByteLen(cs[i].Number) > ByteLen(num)
       THEN FindLongest(cs, i + 1, cs[i].Number, i)
       ELSE FindLongest(cs, i + 1, num, pos)

\* Renumber with the offset subtracted: cn - (j - pos)
RenumberDownwards(cs, cn, pos) ==
  [j \in 1..Len(cs) |-> [cs[j] EXCEPT !.Number = Sprint(cn - j + pos)]]

\* cards[j].Number = fmt.Sprint(cn + j - pos), for every j
Renumber(cs, cn, pos) ==
  [j \in 1..Len(cs) |-> [cs[j] EXCEPT !.Number = Sprint(cn + j - pos)]]

\* "Validate numbers and backfill if needed"
Backfill(cs) ==
  IF FoundNum(cs) = Len(cs) THEN cs
  ELSE LET longest == FindLongest(cs, 1, <<>>, 0)
           cn      == AtoiVal(TrimLeft(longest.num, "0"))
       IN  IF longest.num # <<>> /\ cn > 0
           THEN Renumber(cs, cn, longest.pos)
           ELSE cs

MaxCards == 3

MaxHeaders == 3

ItemNames == { <<"B","o","l","t">>, <<"S","h","o","c","k">> }

BlankCard(name) ==
  [Name |-> name, Number |-> <<>>, Foil |-> FALSE, Etched |-> FALSE, Token |-> FALSE]

\* the card lists the line loops can leave: at least one card, no number yet
CardLists ==
  UNION { { [i \in 1..n |-> BlankCard(f[i])] : f \in [1..n -> ItemNames] } :
          n \in 1..MaxCards }

SetTitles ==
  { <<"L","a","i","r"," ","G","a","l","a","x","y">>, <<"O","m","e","n","s">> }

HeaderSet ==
  { [Title |-> <<"L","a","i","r"," ","x">>, URI |-> "q1"],
    [Title |-> <<"A","i","r">>,             URI |-> "q2"],
    [Title |-> <<"O","m","e","n","s">>,     URI |-> "q3"] }

HeaderLists == UNION { [1..n -> HeaderSet] : n \in 0..MaxHeaders }

\* collector numbers the authoritative source can report
FuzzyNumbers == { <<"1">>, <<"0","1","2">>, <<"1","2","a">> }

\* what search(header.URI) can return: an error, or a map from names to numbers
SearchOutcomes ==
  { [err |-> TRUE, results |-> <<>>] } \cup
  { [err |-> FALSE, results |-> m] :
      m \in UNION { [S -> FuzzyNumbers] : S \in SUBSET ItemNames } }

\* the images of the gallery: the link may lack its href, the download or the
\* recognition may fail, and the text is what the recognition reads
GalleryImages ==
  { [href |-> FALSE, fetched |-> TRUE,  recognised |-> TRUE,  text |-> <<>>],
    [href |-> TRUE,  fetched |-> FALSE, recognised |-> TRUE,  text |-> <<>>],
    [href |-> TRUE,  fetched |-> TRUE,  recognised |-> FALSE, text |-> <<>>],
    [href |-> TRUE,  fetched |-> TRUE,  recognised |-> TRUE,
       text |-> <<"1","2","3">>],
    [href |-> TRUE,  fetched |-> TRUE,  recognised |-> TRUE,
       text |-> <<"tm"," ","1","2","3">>],
    [href |-> TRUE,  fetched |-> TRUE,  recognised |-> TRUE,
       text |-> <<"1","2"," ","0","0","4","5">>] }

GalleryTitle(k) == <<"C","a","r","d","s"," ","(">> \o Sprint(k) \o <<")">>

\* texts of h2.pdp_title: without a total, or with a total up to 2*MaxCards+1
GalleryTitles ==
  { <<"C","a","r","d","s">> } \cup { GalleryTitle(k) : k \in 0..(2 * MaxCards + 1) }

Numbers(cs) == [i \in 1..Len(cs) |-> cs[i].Number]

noImage == [img |-> -1, card |-> -1]

InitPasses ==
  /\ pcN = "fuzzy"
  /\ hIdx = 1
  /\ foundMatch = FALSE
  /\ queries = <<>>
  /\ fuzzyNums = <<>>
  /\ galleryTitle = <<>>
  /\ foldMode = FALSE
  /\ imgIdx = 0
  /\ lastImage = noImage
  /\ before = <<>>

\* QueryHeader with a break where the code has continue: a failed query ends
\* the loop
QueryHeaderStopOnError(out) ==
  /\ queries' = Append(queries, [h |-> hIdx, err |-> out.err, results |-> out.results])
  /\ IF out.err
     THEN /\ fuzzyNums' = Numbers(cards)
          /\ pcN' = "ocr"
          /\ UNCHANGED <<cards, foundMatch, hIdx>>
     ELSE /\ cards' = ApplyResults(cards, out.results)
          /\ foundMatch' = TRUE
          /\ fuzzyNums' = Numbers(ApplyResults(cards, out.results))
          /\ pcN' = "ocr"
          /\ UNCHANGED hIdx

\* the header matches and search(header.URI) returned out
QueryHeader(out) ==
  /\ queries' = Append(queries, [h |-> hIdx, err |-> out.err, results |-> out.results])
  /\ IF out.err
     THEN /\ hIdx' = hIdx + 1
          /\ UNCHANGED <<cards, foundMatch, pcN, fuzzyNums>>
     ELSE /\ cards' = ApplyResults(cards, out.results)
          /\ foundMatch' = TRUE
          /\ fuzzyNums' = Numbers(ApplyResults(cards, out.results))
          /\ pcN' = "ocr"
          /\ UNCHANGED hIdx

\* one turn of the loop over the headers
TryHeader ==
  /\ pcN = "fuzzy"
  /\ hIdx <= Len(headers)
  /\ IF HeaderMatches(setTitle, headers[hIdx])
     THEN \E out \in SearchOutcomes : QueryHeader(out)
     ELSE /\ hIdx' = hIdx + 1
          /\ UNCHANGED <<cards, foundMatch, pcN, fuzzyNums, queries>>
  /\ UNCHANGED <<setTitle, headers, doOCR, galleryTitle, foldMode, imgIdx,
                 lastImage, before>>
  /\ UNCHANGED otherThanPasses

\* the loop ends without a match: "was not found, no numbers available!"
EndHeaders ==
  /\ pcN = "fuzzy"
  /\ hIdx > Len(headers)
  /\ fuzzyNums' = Numbers(cards)
  /\ pcN' = "ocr"
  /\ UNCHANGED <<setTitle, headers, hIdx, foundMatch, queries, cards, doOCR,
                 galleryTitle, foldMode, imgIdx, lastImage, before>>
  /\ UNCHANGED otherThanPasses

\* if doOCR: foldMode is set from the gallery title
StartImages ==
  /\ pcN = "ocr"
  /\ IF doOCR
     THEN \E g \in GalleryTitles :
            /\ galleryTitle' = g
            /\ foldMode' = FoldMode(g, Len(cards))
            /\ pcN' = "images"
     ELSE /\ pcN' = "backfill"
          /\ UNCHANGED <<galleryTitle, foldMode>>
  /\ UNCHANGED <<setTitle, headers, hIdx, foundMatch, queries, fuzzyNums, cards,
                 doOCR, imgIdx, lastImage, before>>
  /\ UNCHANGED otherThanPasses

\* the number the image gives cards[i], which has none yet
ImageNumber(cs, i, image) ==
  IF ~image.href \/ getNumberFromLink(image).err # "" THEN cs
  ELSE [cs EXCEPT ![i].Number = getNumberFromLink(image).num]

\* the callback of doc.Find("figure a").EachWithBreak, on image imgIdx
ImageStep ==
  /\ pcN = "images"
  /\ imgIdx < 2 * MaxCards + 2
  /\ LET i == ImageCard(foldMode, imgIdx)
     IN  IF i >= Len(cards)
         THEN /\ pcN' = "backfill"
              /\ UNCHANGED <<cards, imgIdx, lastImage>>
         ELSE /\ lastImage' = [img |-> imgIdx, card |-> i]
              /\ imgIdx' = imgIdx + 1
              /\ pcN' = pcN
              /\ IF cards[i + 1].Number # <<>>
                 THEN cards' = cards
                 ELSE \E image \in GalleryImages :
                        cards' = ImageNumber(cards, i + 1, image)
  /\ UNCHANGED <<setTitle, headers, hIdx, foundMatch, queries, fuzzyNums, doOCR,
                 galleryTitle, foldMode, before>>
  /\ UNCHANGED otherThanPasses

\* the gallery has no further image
EndImages ==
  /\ pcN = "images"
  /\ pcN' = "backfill"
  /\ UNCHANGED <<setTitle, headers, hIdx, foundMatch, queries, fuzzyNums, cards,
                 doOCR, galleryTitle, foldMode, imgIdx, lastImage, before>>
  /\ UNCHANGED otherThanPasses

\* the validation and backfill that end scrapeProduct
BackfillStep ==
  /\ pcN = "backfill"
  /\ before' = Numbers(cards)
  /\ cards' = Backfill(cards)
  /\ pcN' = "done"
  /\ UNCHANGED <<setTitle, headers, hIdx, foundMatch, queries, fuzzyNums, doOCR,
                 galleryTitle, foldMode, imgIdx, lastImage>>
  /\ UNCHANGED otherThanPasses

---------------------------------------------------------------------------
(* cleanLine's denylist loop, applied to a text and again to its result    *)

MaxPieces == 3

MaxRuns == 2

StripPieces ==
  { <<"F","o">>, <<"i","l">>, <<"F","o","i","l">>, <<"*">>,
    <<"F","u","l","l","-">>, <<"A","r","t">>, <<"t","o","k","e","n">>,
    <<"B","o","l","t"," ">> }

RECURSIVE Concat(_)
Concat(parts) == IF parts = <<>> THEN <<>> ELSE Head(parts) \o Concat(Tail(parts))

StripTexts ==
  { Concat(p) : p \in UNION { [1..n -> StripPieces] : n \in 0..MaxPieces } }

InitStrip ==
  /\ sText \in StripTexts
  /\ sPrev = <<>>
  /\ sRuns = 0

\* the loop over the denylist runs on the current text
StripStep ==
  /\ sRuns < MaxRuns
  /\ sPrev' = sText
  /\ sText' = StripDenylist(sText)
  /\ sRuns' = sRuns + 1
  /\ UNCHANGED otherThanStrip

---------------------------------------------------------------------------
(* getNumberFromLink on the text the recognition returns                   *)

MaxFields == 3

\* tokens the recognition can return under its whitelist "0123456789 tm copy"
OcrTokens ==
  { <<"1","2">>, <<"1","2","3">>, <<"4","5","6","7">>, <<"tm">>, <<"copy">>,
    <<"7","tm">>,
    <<"9","9","9","9","9","9","9","9","9","9","9","9","9","9","9","9","9","9","9","9">> }

RECURSIVE JoinSpace(_)
JoinSpace(tokens) ==
  IF tokens = <<>> THEN <<>>
  ELSE IF Len(tokens) = 1 THEN Head(tokens)
  ELSE Head(tokens) \o <<" ">> \o JoinSpace(Tail(tokens))

OcrTokenLists == UNION { [1..n -> OcrTokens] : n \in 0..MaxFields }

noNumber == [num |-> <<>>, err |-> "not run"]

InitOCR ==
  /\ ocrTokens \in OcrTokenLists
  /\ ocrRes = noNumber

\* getNumberFromLink on an image whose text is the tokens, space separated
ReadImage ==
  /\ ocrRes = noNumber
  /\ \E f \in BOOLEAN, r \in BOOLEAN :
       ocrRes' = getNumberFromLink([fetched |-> f, recognised |-> r,
                                    text |-> JoinSpace(ocrTokens)])
  /\ UNCHANGED ocrTokens
  /\ UNCHANGED otherThanOCR

---------------------------------------------------------------------------
(* run                                                                     *)

MaxArgs == 2

MaxPageOpt == 2

MaxPages == 2

\* products received from getProducts in one run
MaxProducts == 3

skipTitles ==
  << <<"B","u","n","d","l","e">>,
     <<"B","U","N","D","L","E">>,
     <<"F","e","s","t","i","v","a","l"," ","i","n"," ","a"," ","B","o","x">>,
     <<"T","r","a","n","s","f","o","r","m","e","r","s"," ","T","C","G">>,
     <<"D","R","A","G","O","N","rsquo","S"," ","E","N","D","G","A","M","E">>,
     <<"S","e","c","r","e","t"," ","L","a","i","r"," ","C","o","m","m","a","n","d","e","r"," ","D","e","c","k">>,
     <<"T","h","e","y","'","r","e"," ","J","u","s","t"," ","L","i","k","e"," ","U","s"," ","b","u","t">>,
     <<"H","e","a","d","s"," ","I"," ","W","i","n",","," ","T","a","i","l","s">>,
     <<"D","e","l","u","x","e"," ","C","o","l","l","e","c","t","i","o","n">>,
     <<"H","e","r","o","e","s"," ","o","f"," ","t","h","e"," ","B","o","r","d","e","r","l","a","n","d","s">>,
     <<"W","e","l","c","o","m","e"," ","t","o"," ","t","h","e"," ","H","e","l","l","f","i","r","e"," ","C","l","u","b">>,
     <<"D","&","D"," ","S","a","p","p","h","i","r","e"," ","A","n","n","i","v","e","r","s","a","r","y">>,
     <<"3","0","t","h"," ","A","n","n","i","v","e","r","s","a","r","y"," ","E","d","i","t","i","o","n">>,
     <<"J","a","p","a","n","e","s","e">>,
     <<" ","J","P">>,
     <<" ","S","P">>,
     <<"C","o","u","n","t","d","o","w","n"," ","K","i","t">> >>

\* shouldSkip: some description's title contains one of the skipped names
ShouldSkip(product) ==
  \E d \in 1..Len(product.Descriptions) :
    \E k \in 1..Len(skipTitles) :
      Contains(product.Descriptions[d].Title, skipTitles[k])

ProductSet ==
  { [ProductID |-> "1001",
     Descriptions |-> << [Title |-> <<"S","h","o","w","c","a","s","e"," ","L","a","i","r">>] >>],
    [ProductID |-> "1002",
     Descriptions |-> << [Title |-> <<"L","a","i","r"," ","B","u","n","d","l","e">>] >>] }

ProductPages == UNION { [1..n -> ProductSet] : n \in 0..MaxProducts }

\* how scrapeProduct and dumpCards can end for a product
ScrapeOutcomes == { "ok", "page fetch failed", "no cards found" }

DumpOutcomes == { "ok", "file not created" }

ArgLists == UNION { [1..n -> {"url1", "url2"}] : n \in 0..MaxArgs }

InitRun ==
  /\ runPc = "start"
  /\ args \in ArgLists
  /\ pageOpt \in 0..MaxPageOpt
  /\ pageI = 0
  /\ pending = <<>>
  /\ fetched = 0
  /\ runLog = <<>>
  /\ exitCode = -1
  /\ returnLine = 0

\* return code, from the return statement at the given line of main.go
Return(code, line) ==
  /\ runPc' = "exit"
  /\ exitCode' = code
  /\ returnLine' = line

\* headers, err := loadScryfallHeaders(...)
LoadHeaders ==
  /\ runPc = "start"
  /\ \E loaded \in BOOLEAN :
       IF loaded
       THEN runPc' = "args" /\ UNCHANGED <<exitCode, returnLine>>
       ELSE Return(1, 478)
  /\ UNCHANGED <<args, pageOpt, pageI, pending, fetched, runLog>>
  /\ UNCHANGED otherThanRun

\* what a product's scrape and dump come to
Outcome(s, d) == IF s # "ok" THEN s ELSE d

\* the body of the loop over flag.Args(): it returns in its first turn
FirstArg ==
  /\ runPc = "args"
  /\ Len(args) > 0
  /\ \E s \in ScrapeOutcomes, d \in DumpOutcomes :
       /\ runLog' = Append(runLog, [product |-> args[1], outcome |-> Outcome(s, d)])
       /\ IF s # "ok" THEN Return(1, 485)
          ELSE IF d # "ok" THEN Return(1, 491)
          ELSE Return(0, 493)
  /\ UNCHANGED <<args, pageOpt, pageI, pending, fetched>>
  /\ UNCHANGED otherThanRun

\* no URL was given: the starting page is needed
NoArgs ==
  /\ runPc = "args"
  /\ Len(args) = 0
  /\ IF pageOpt = 0
     THEN Return(1, 498) /\ UNCHANGED pageI
     ELSE /\ pageI' = pageOpt
          /\ runPc' = "catalog"
          /\ UNCHANGED <<exitCode, returnLine>>
  /\ UNCHANGED <<args, pageOpt, pending, fetched, runLog>>
  /\ UNCHANGED otherThanRun

\* resp, err := getProducts(i * maxItemsInResp), at the top of the loop
GetProducts ==
  /\ runPc = "catalog"
  /\ \/ /\ Return(0, 561)                       \* err != nil: break
        /\ UNCHANGED <<pageI, pending, fetched>>
     \/ /\ pageI' = pageI + 1                   \* no product: break
        /\ Return(0, 561)
        /\ UNCHANGED <<pending, fetched>>
     \/ /\ pageI < pageOpt + MaxPages
        /\ \E page \in ProductPages :
             /\ Len(page) > 0
             /\ fetched + Len(page) <= MaxProducts
             /\ pending' = page
             /\ fetched' = fetched + Len(page)
        /\ pageI' = pageI + 1
        /\ runPc' = "products"
        /\ UNCHANGED <<exitCode, returnLine>>
  /\ UNCHANGED <<args, pageOpt, runLog>>
  /\ UNCHANGED otherThanRun

\* NextProduct with the explicit-URL loop's handling of a failure: return 1
NextProductStopOnError(outcome) ==
  /\ runLog' = Append(runLog, [product |-> Head(pending).ProductID, outcome |-> outcome])
  /\ pending' = Tail(pending)
  /\ IF outcome \in {"ok", "skipped"}
     THEN UNCHANGED <<runPc, exitCode, returnLine>>
     ELSE Return(1, 548)

\* what the catalog loop does once the product's outcome is known: in every
\* case it goes on with the next product
NextProduct(outcome) ==
  /\ runLog' = Append(runLog, [product |-> Head(pending).ProductID, outcome |-> outcome])
  /\ pending' = Tail(pending)
  /\ UNCHANGED <<runPc, exitCode, returnLine>>

\* one turn of the loop over resp.Products
HandleProduct ==
  /\ runPc = "products"
  /\ pending # <<>>
  /\ IF ShouldSkip(Head(pending))
     THEN NextProduct("skipped")
     ELSE \E s \in ScrapeOutcomes, d \in DumpOutcomes : NextProduct(Outcome(s, d))
  /\ UNCHANGED <<args, pageOpt, pageI, fetched>>
  /\ UNCHANGED otherThanRun

\* the products of the page are done: back to the top of the loop
EndPage ==
  /\ runPc = "products"
  /\ pending = <<>>
  /\ runPc' = "catalog"
  /\ UNCHANGED <<args, pageOpt, pageI, pending, fetched, runLog, exitCode, returnLine>>
  /\ UNCHANGED otherThanRun

---------------------------------------------------------------------------
(* The specifications                                                      *)

IdleLines ==
  /\ title = <<>>
  /\ liLeft = 0
  /\ infoLeft = 0
  /\ pcL = "idle"
  /\ lastLine = <<>>
  /\ lastRes = noResult
  /\ added = <<>>

IdlePasses ==
  /\ setTitle = <<>>
  /\ headers = <<>>
  /\ doOCR = FALSE
  /\ hIdx = 1
  /\ foundMatch = FALSE
  /\ queries = <<>>
  /\ pcN = "idle"
  /\ fuzzyNums = <<>>
  /\ galleryTitle = <<>>
  /\ foldMode = FALSE
  /\ imgIdx = 0
  /\ lastImage = noImage
  /\ before = <<>>

IdleStrip == sText = <<>> /\ sPrev = <<>> /\ sRuns = MaxRuns

IdleOCR == ocrTokens = <<>> /\ ocrRes = [num |-> <<>>, err |-> "idle"]

IdleRun ==
  /\ runPc = "idle"
  /\ args = <<>>
  /\ pageOpt = 0
  /\ pageI = 0
  /\ pending = <<>>
  /\ fetched = 0
  /\ runLog = <<>>
  /\ exitCode = -1
  /\ returnLine = 0

InitLinesSpec == InitLines /\ IdlePasses /\ IdleStrip /\ IdleOCR /\ IdleRun

\* scrapeProduct up to the card list
SpecLines == InitLinesSpec /\ [][NextLines]_vars

NextFuzzy == TryHeader \/ EndHeaders

InitFuzzy ==
  /\ InitPasses
  /\ cards \in CardLists
  /\ setTitle \in SetTitles
  /\ headers \in HeaderLists
  /\ doOCR = FALSE
  /\ IdleLines /\ IdleStrip /\ IdleOCR /\ IdleRun

\* scrapeProduct, the loop over the headers
SpecFuzzy == InitFuzzy /\ [][NextFuzzy]_vars

NextNumbers ==
  TryHeader \/ EndHeaders \/ StartImages \/ ImageStep \/ EndImages \/ BackfillStep

InitNumbers ==
  /\ InitPasses
  /\ cards \in CardLists
  /\ setTitle = <<"L","a","i","r"," ","G","a","l","a","x","y">>
  /\ headers \in { <<>>, << [Title |-> <<"L","a","i","r"," ","x">>, URI |-> "q1"] >> }
  /\ doOCR \in BOOLEAN
  /\ IdleLines /\ IdleStrip /\ IdleOCR /\ IdleRun

\* scrapeProduct from the card list to its return
SpecNumbers == InitNumbers /\ [][NextNumbers]_vars

InitStripSpec ==
  InitStrip /\ cards = <<>> /\ IdleLines /\ IdlePasses /\ IdleOCR /\ IdleRun

NextStrip == StripStep

SpecStrip == InitStripSpec /\ [][NextStrip]_vars

InitOCRSpec ==
  InitOCR /\ cards = <<>> /\ IdleLines /\ IdlePasses /\ IdleStrip /\ IdleRun

NextOCR == ReadImage

SpecOCR == InitOCRSpec /\ [][NextOCR]_vars

NextRun ==
  LoadHeaders \/ FirstArg \/ NoArgs \/ GetProducts \/ HandleProduct \/ EndPage

InitRunSpec ==
  InitRun /\ cards = <<>> /\ IdleLines /\ IdlePasses /\ IdleStrip /\ IdleOCR

SpecRun == InitRunSpec /\ [][NextRun]_vars

Spec == SpecNumbers

---------------------------------------------------------------------------
(* Properties of the number passes (SpecNumbers)                           *)

\* the position of the longest number, the first of them when several are as
\* long
AnchorPos(nums) ==
  CHOOSE i \in 1..Len(nums) :
    /\ nums[i] # <<>>
    /\ \A j \in 1..Len(nums) :
         nums[j] # <<>> =>
           \/ Len(nums[j]) < Len(nums[i])
           \/ Len(nums[j]) = Len(nums[i]) /\ j >= i

\* the anchor's value: parsed once its leading zeros are stripped
AnchorValue(nums) == AtoiVal(TrimLeft(nums[AnchorPos(nums)], "0"))

SomeEmpty(nums) == \E i \in 1..Len(nums) : nums[i] = <<>>

SomeFound(nums) == \E i \in 1..Len(nums) : nums[i] # <<>>

\* the backfill has something to fill, and an anchor to fill it from
BackfillRuns(nums) == SomeEmpty(nums) /\ SomeFound(nums) /\ AnchorValue(nums) > 0

\* decimal strings of integers, each smaller than the next
StrictlyIncreasing(nums) ==
  /\ \A i \in 1..Len(nums) : ~AtoiErr(nums[i])
  /\ \A i \in 1..(Len(nums) - 1) : AtoiVal(nums[i]) < AtoiVal(nums[i + 1])

\* C1: when scrapeProduct returns, every item whose number the fuzzy match set
\* to a non-empty value still has that value: neither the image pass nor the
\* backfill has overwritten it.
C1_FuzzyNumbersKept ==
  pcN = "done" =>
    \A i \in 1..Len(cards) :
      fuzzyNums[i] # <<>> => cards[i].Number = fuzzyNums[i]

\* C2, as stated: for any product with at least one number after the fuzzy
\* match and the image pass, the final numbers are strictly increasing
\* integers and the anchor's number is its parsed value.
C2_Original ==
  (pcN = "done" /\ SomeFound(before)) =>
    /\ StrictlyIncreasing(Numbers(cards))
    /\ cards[AnchorPos(before)].Number = Sprint(AnchorValue(before))

\* C2, amended: the same, for the products the backfill runs on, which have a
\* number missing, a number found and an anchor that parses to a positive
\* integer.
C2_Backfilled ==
  (pcN = "done" /\ BackfillRuns(before)) =>
    /\ StrictlyIncreasing(Numbers(cards))
    /\ cards[AnchorPos(before)].Number = Sprint(AnchorValue(before))

C2_Witness ==
  /\ pcN = "done"
  /\ BackfillRuns(before)
  /\ Len(cards) = 3
  /\ AnchorPos(before) = 2

C8_FoldOnlyExactDouble ==
  (doOCR /\ pcN \in {"images", "backfill", "done"}) =>
    LET double == galleryTitle = GalleryTitle(2 * Len(cards))
    IN  /\ foldMode <=> double
        /\ lastImage.img >= 0 =>
             lastImage.card = IF double THEN lastImage.img \div 2 ELSE lastImage.img

\* C11: every number the backfill writes is the decimal string of an integer
\* of 1 or more, whatever the number of cards, the anchor's value and its
\* position: no card before the anchor gets "0" or a negative number.
C11_BackfillPositive ==
  (pcN = "done" /\ BackfillRuns(before)) =>
    \A j \in 1..Len(cards) :
      /\ ~AtoiErr(cards[j].Number)
      /\ AtoiVal(cards[j].Number) >= 1

---------------------------------------------------------------------------
(* Properties of the loop over the headers (SpecFuzzy)                     *)

MatchingHeaders == { h \in 1..Len(headers) : HeaderMatches(setTitle, headers[h]) }

Queried == { queries[k].h : k \in 1..Len(queries) }

NoNumber == \A i \in 1..Len(cards) : cards[i].Number = <<>>

\* C9, as stated: only the first entry whose title matches is queried, and if
\* its query fails the product has no match and no item gets a number.
C9_Original ==
  pcN = "ocr" =>
    /\ \A h \in Queried : \A m \in MatchingHeaders : h <= m
    /\ (queries # <<>> /\ queries[1].err) => (~foundMatch /\ NoNumber)

\* C9, amended: the matching entries are queried in index order until one
\* query succeeds; that entry's result alone gives the numbers and no later
\* entry is queried; a matching entry whose query fails is passed over; the
\* product has no match, and no item a number, only if every matching entry's
\* query fails.  In each case scrapeProduct goes on to the image pass.
C9_FirstAnswering ==
  pcN = "ocr" =>
    /\ \A k \in 1..(Len(queries) - 1) :
         queries[k].err /\ queries[k].h < queries[k + 1].h
    /\ foundMatch <=> (queries # <<>> /\ ~queries[Len(queries)].err)
    /\ foundMatch =>
         /\ Queried = { h \in MatchingHeaders : h <= queries[Len(queries)].h }
         /\ \A i \in 1..Len(cards) :
              cards[i].Number = Lookup(queries[Len(queries)].results, cards[i].Name)
    /\ ~foundMatch => (Queried = MatchingHeaders /\ NoNumber)

\* a first matching entry's query failed and a later entry gave the numbers
C9_Witness ==
  /\ pcN = "ocr"
  /\ Len(queries) = 2
  /\ queries[1].err
  /\ foundMatch
  /\ ~NoNumber

---------------------------------------------------------------------------
(* Properties of the line loops (SpecLines)                                *)

\* the line "<n>x <name>", the count right before the x
CountedLine(n, name) == Sprint(n) \o <<"x"," ">> \o name

\* the line "<n> x <name>", a space between the count and the x
SpacedLine(n, name) == Sprint(n) \o <<" ","x"," ">> \o name

\* the cards all carry the name cleanLine returned and the flags of the raw line
UniformCards(items, line, name) ==
  \A i \in 1..Len(items) :
    /\ items[i].Name = name
    /\ items[i].Foil = Contains(ToLower(line), <<"f","o","i","l">>)
    /\ items[i].Etched = Contains(ToLower(line), <<"e","t","c","h","e","d">>)
    /\ items[i].Token = Contains(ToLower(line), <<"t","o","k","e","n">>)

\* C4, as stated: a line "<n> x <name>" with n >= 1 appends exactly n items,
\* for any name and any product title, all with the same name and flags.
C4_Original ==
  \A n \in 1..MaxCount, name \in NameTexts :
    lastLine = SpacedLine(n, name) =>
      (Len(added) = n /\ UniformCards(added, lastLine, lastRes.name))

\* C4, amended: a line "<n>x <name>" with n >= 1, whose name holds no "x ",
\* appends exactly n items under a title without "Astrology Lands" and exactly
\* one item under a title with it, all with the name cleanLine returned and
\* the flags of the raw line; a line "<n> x <name>", and a line whose name
\* holds "x ", is refused by cleanLine and appends nothing.
C4_CountedLines ==
  \A n \in 1..MaxCount, name \in NameTexts :
    /\ (lastLine = CountedLine(n, name) /\ ~Contains(name, <<"x"," ">>)) =>
         /\ Len(added) = IF Contains(title, astrologyLands) THEN 1 ELSE n
         /\ UniformCards(added, lastLine, lastRes.name)
         /\ lastRes.err = ""
    /\ (\/ lastLine = SpacedLine(n, name)
        \/ lastLine = CountedLine(n, name) /\ Contains(name, <<"x"," ">>)) =>
         (added = <<>> /\ lastRes.err # "")

\* "2x Bolt (Foil)" has given two foil cards named "Bolt"
C4_Witness ==
  /\ lastLine = CountedLine(2, <<"B","o","l","t"," ","(","F","o","i","l",")">>)
  /\ Len(added) = 2
  /\ added[1].Name = <<"B","o","l","t">>
  /\ added[2].Foil
  /\ Len(cards) >= 2

\* the texts that are base-10 integers, among the count texts
IntegerTexts == { Sprint(n) : n \in -1..MaxCount }

\* C7, as stated: cleanLine fails on every line of another shape than
\* "<count> x <name>" and on every count that is 0, not positive or not an
\* integer (the line is then skipped); it never succeeds with a count below 1.
C7_Original ==
  /\ lastRes.err # "" => added = <<>>
  /\ \A c \in CountTexts \ IntegerTexts, s \in Separators, name \in NameTexts :
       lastLine = c \o s \o name => lastRes.err # ""
  /\ lastRes.err = "" => lastRes.num >= 1

\* C7, amended: cleanLine fails on every line that does not split on "x " into
\* exactly two parts and on every line whose first part strconv.Atoi refuses
\* (a line so refused adds no item); a count of 0 or below is accepted:
\* cleanLine succeeds with that count and the line adds no item.
C7_CountsAccepted ==
  /\ lastRes.err # "" => added = <<>>
  /\ (lastRes # noResult /\ ~Contains(lastLine, <<"x"," ">>)) =>
       lastRes.err = "unexpected line format"
  /\ \A c \in CountTexts, s \in Separators, name \in NameTexts :
       lastLine = c \o s \o name =>
         /\ lastRes.err = "" <=>
              /\ c \in IntegerTexts
              /\ s = <<"x"," ">>
              /\ ~Contains(name, <<"x"," ">>)
         /\ (c \notin IntegerTexts /\ s = <<"x"," ">> /\ ~Contains(name, <<"x"," ">>)) =>
              lastRes.err = "invalid number in line"
         /\ lastRes.err = "" => Sprint(lastRes.num) = c
  /\ (lastRes.err = "" /\ lastRes.num < 1) => added = <<>>

\* "0x Bolt" was accepted with the count 0 and added nothing, and the loop
\* went on to a line that added cards
C7_Witness ==
  /\ lastRes.err = ""
  /\ lastRes.num = 0
  /\ lastLine = CountedLine(0, <<"B","o","l","t">>)
  /\ added = <<>>

---------------------------------------------------------------------------
(* Properties of the denylist loop (SpecStrip)                             *)

\* the text holds a tag of the denylist, or the lowercase form of one
HasDenied(s) ==
  \E k \in 1..Len(denylist) :
    Contains(s, denylist[k]) \/ Contains(s, ToLower(denylist[k]))

\* C5, as stated: the loop applied to its own result returns it unchanged, and
\* its result holds no tag of the denylist.
C5_Original ==
  /\ sRuns >= 2 => sText = sPrev
  /\ sRuns >= 1 => ~HasDenied(sText)

\* C5, amended: the loop returns unchanged every text that holds no tag of
\* the denylist and no lowercase form of one.
C5_CleanTextUnchanged ==
  (sRuns >= 1 /\ ~HasDenied(sPrev)) => sText = sPrev

\* the loop has run on a non-empty text without a tag
C5_Witness ==
  /\ sRuns = 1
  /\ sPrev = <<"B","o","l","t"," ","A","r","t">>
  /\ ~HasDenied(sPrev)
  /\ sText = sPrev

---------------------------------------------------------------------------
(* Properties of getNumberFromLink (SpecOCR)                               *)

IsTerminator(t) == t \in { <<"tm">>, <<"copy">> }

RECURSIVE BeforeTerminator(_)
\* the tokens that come before the first terminator
BeforeTerminator(tokens) ==
  IF tokens = <<>> \/ IsTerminator(Head(tokens)) THEN <<>>
  ELSE <<Head(tokens)>> \o BeforeTerminator(Tail(tokens))

AllDigits(t) == t # <<>> /\ \A i \in 1..Len(t) : IsDigit(t[i])

\* C10, as stated: the number returned is empty, or a token of digits longer
\* than 2 that comes before the first terminator; a token of length 3 is
\* returned only if no token of digits longer than 3 comes before the first
\* terminator.
C10_Original ==
  ocrRes.err \in {"", "fetch", "text"} =>
    LET pre == BeforeTerminator(ocrTokens)
    IN  /\ \/ ocrRes.num = <<>>
           \/ /\ AllDigits(ocrRes.num)
              /\ Len(ocrRes.num) > 2
              /\ \E i \in 1..Len(pre) : pre[i] = ocrRes.num
        /\ Len(ocrRes.num) = 3 =>
             ~\E i \in 1..Len(pre) : AllDigits(pre[i]) /\ Len(pre[i]) > 3

\* C10, amended: the same, the tokens of digits longer than 3 that bar a token
\* of length 3 being those strconv.Atoi accepts: one too large for an int (64
\* bits) is refused and passed over.
C10_FittingTokens ==
  ocrRes.err \in {"", "fetch", "text"} =>
    LET pre == BeforeTerminator(ocrTokens)
    IN  /\ \/ ocrRes.num = <<>>
           \/ /\ AllDigits(ocrRes.num)
              /\ Len(ocrRes.num) > 2
              /\ \E i \in 1..Len(pre) : pre[i] = ocrRes.num
        /\ Len(ocrRes.num) = 3 =>
             ~\E i \in 1..Len(pre) :
                /\ AllDigits(pre[i])
                /\ Len(pre[i]) > 3
                /\ ~AtoiOutOfRange(pre[i])

\* a token of length 3 was returned although a token of length 2 came first
\* and a token of length 4 came after a terminator
C10_Witness ==
  /\ ocrRes.err = ""
  /\ ocrRes.num = <<"1","2","3">>
  /\ ocrTokens = << <<"1","2">>, <<"1","2","3">>, <<"tm">> >>

---------------------------------------------------------------------------
(* Properties of run (SpecRun)                                             *)

Failed(outcome) == outcome \notin {"ok", "skipped"}

=============================================================================
